---------------------------- MODULE Spec2Model ----------------------------
(***************************************************************************)
(* A model of the two command-line tools of the repository:                *)
(*   git_commit_message_generator.py  ("gen")                              *)
(*   preview-branch-then-delete.py    ("branch")                           *)
(* One behaviour of the model is one run of one tool (SpecRerun adds a     *)
(* second run of the generator on the same repository).  Every blocking    *)
(* call of main() (a git subprocess, the completion request, the prompt)   *)
(* is one action; the outcome of the call is chosen by the environment.    *)
(* Texts are TLA+ strings; Len, \o and SubSeq act on them character by     *)
(* character.                                                              *)
(***************************************************************************)
EXTENDS Integers, Sequences, FiniteSets, TLC

VARIABLES
    tool,       \* which script runs: "gen" or "branch"
    pc,         \* position of main()
    args,       \* parsed command line: dry_run, comments, branch_name
    env,        \* process environment: git_on_path, api_key
    repo,       \* git repository: index, commits, branches, dirty
    repo0,      \* the repository as it was when the run started
    loc,        \* local variables of main() and of the callee in progress
    out,        \* console lines, exit status, unhandled exception
    calls,      \* git subprocesses issued so far, in order
    requests,   \* completion requests issued so far (the prompts sent)
    prev        \* observation of the previous run (SpecRerun only)

vars == <<tool, pc, args, env, repo, repo0, loc, out, calls, requests, prev>>

----------------------------------------------------------------------------
(* Bounds of the model *)

\* most files staged in the index at the start of a run
MaxStaged == 2
\* how far beyond max_diff_length the longest diff / history text reaches
Excess == 40

----------------------------------------------------------------------------
(* Python values *)

None == [some |-> FALSE, val |-> ""]
Some(s) == [some |-> TRUE, val |-> s]
\* "not x" for x an Optional[str]
Falsy(o) == (~o.some) \/ o.val = ""

Char(s, i) == SubSeq(s, i, i)
\* str.isspace() for one character
IsSpace(c) == c \in {" ", "\n", "\t", "\r"}

RECURSIVE LStrip(_)
LStrip(s) ==
    IF Len(s) > 0 /\ IsSpace(Char(s, 1)) THEN LStrip(SubSeq(s, 2, Len(s))) ELSE s

RECURSIVE RStrip(_)
RStrip(s) ==
    IF Len(s) > 0 /\ IsSpace(Char(s, Len(s)))
    THEN RStrip(SubSeq(s, 1, Len(s) - 1))
    ELSE s

\* str.strip()
Strip(s) == RStrip(LStrip(s))

\* str.split("\n"): the pieces between line feeds, empty pieces kept
RECURSIVE SplitLines(_)
SplitLines(s) ==
    IF \E i \in 1..Len(s) : Char(s, i) = "\n"
    THEN LET i == CHOOSE j \in 1..Len(s) :
                     /\ Char(s, j) = "\n"
                     /\ \A k \in 1..(j - 1) : Char(s, k) # "\n"
         IN  <<SubSeq(s, 1, i - 1)>> \o SplitLines(SubSeq(s, i + 1, Len(s)))
    ELSE <<s>>

\* [f for f in files if f]
RECURSIVE NonEmpty(_)
NonEmpty(fs) ==
    IF fs = <<>> THEN <<>>
    ELSE IF Head(fs) = "" THEN NonEmpty(Tail(fs))
    ELSE <<Head(fs)>> \o NonEmpty(Tail(fs))

UpperAlpha == "ABCDEFGHIJKLMNOPQRSTUVWXYZ"
LowerAlpha == "abcdefghijklmnopqrstuvwxyz"
LowerChar(c) ==
    IF \E i \in 1..Len(UpperAlpha) : Char(UpperAlpha, i) = c
    THEN Char(LowerAlpha, CHOOSE i \in 1..Len(UpperAlpha) : Char(UpperAlpha, i) = c)
    ELSE c

\* str.lower()
RECURSIVE Lower(_)
Lower(s) ==
    IF Len(s) = 0 THEN ""
    ELSE LowerChar(Char(s, 1)) \o Lower(SubSeq(s, 2, Len(s)))

\* c * n
RECURSIVE Rep(_, _)
Rep(c, n) ==
    IF n <= 0 THEN ""
    ELSE IF n = 1 THEN c
    ELSE Rep(c, n \div 2) \o Rep(c, n - (n \div 2))


----------------------------------------------------------------------------
(* Program constants *)

\* generate_commit_message: max_diff_length
max_diff_length == 50000
\* generate_commit_message: the text appended to a truncated diff
TruncationMarker == "\n[Diff truncated due to size...]"
\* main: the message used when generate_commit_message returned nothing
DefaultMessage == "Update code based on recent changes"
\* get_current_branch: the name returned when git rev-parse fails
UnknownBranch == "unknown-branch"
\* the reserved reply meaning "do not produce a commit message"
InsufficientContext == "INSUFFICIENT_CONTEXT"

\* the fixed part of the prompt between </diff> and <user_comments>
\* (the eight guidelines, abridged: the text is the same in every run)
Guidelines ==
    "\nBased on the changes and branch context, generate a concise, one-line "
    \o "commit message following these guidelines:\n\n[guidelines 1-8]\n\n\n"
    \o "Only write the commit message, nothing else.\n\n"

----------------------------------------------------------------------------
(* Inputs: what the command line, the environment and the outside world    *)
(* can hand to a run                                                        *)

FileNames == <<"a.py", "b.py", "c.py", "d.py">>
Min(a, b) == IF a < b THEN a ELSE b
Indexes == {SubSeq(FileNames, 1, k) : k \in 0..Min(MaxStaged, Len(FileNames))}

\* exit statuses a git subprocess can return
ReturnCodes == {0, 1, 128}

\* a text of exactly n characters whose first and last characters are marked
LongText(n) == "H" \o Rep("x", n - 5) \o "TAIL"

\* stdout of "git diff --cached"
DiffOutputs == {"", " \n", "diff --git a/a.py b/a.py\n+def f(): pass\n"}

\* stdout of "git rev-parse --abbrev-ref HEAD"
BranchOutputs == {"feature-x\n", "HEAD\n"}

\* stdout of "git log <merge-base>..HEAD --oneline"
LogOutputs == {"", "abc1234 Add parser\n"}

\* texts as long as max_diff_length and longer (SpecPrompt only)
LongTexts ==
    {LongText(max_diff_length), LongText(max_diff_length + 1),
     LongText(max_diff_length + Excess)}

\* response.choices[0].message.content of a completed request
Contents == {"Add parser", "  Fix bug \n", "", " \n", InsufficientContext}

\* what client.chat.completions.create(...) does
ApiOutcomes ==
    {[kind |-> "content", text |-> t] : t \in Contents}
    \cup {[kind |-> "null_content", text |-> ""], [kind |-> "error", text |-> ""]}

\* what the operator types at the prompt, or how input() fails
Answers == {"y", "Y", "n", "", "yes"}
PromptOutcomes ==
    {[kind |-> "line", text |-> a] : a \in Answers}
    \cup {[kind |-> "EOFError", text |-> ""],
          [kind |-> "KeyboardInterrupt", text |-> ""]}

\* subprocess.run of a git command: not launched (FileNotFoundError) when git
\* is not on the path, else some return code
GitOutcomes ==
    IF env.git_on_path
    THEN {[launched |-> TRUE, rc |-> r] : r \in ReturnCodes}
    ELSE {[launched |-> FALSE, rc |-> 0]}

----------------------------------------------------------------------------
(* State after start-up *)

NoLocals ==
    [staged_files |-> <<>>, diff |-> "", branch_name |-> "", branch_commits |-> "",
     diff_text |-> "", branch_context |-> "", api |-> "", api_text |-> "",
     commit_message |-> None,
     displayed |-> None, confirm |-> "", delete_confirmed |-> FALSE, pending |-> ""]

NoOutput == [console |-> <<>>, exited |-> FALSE, code |-> 0, unhandled |-> ""]

NoPrev == [some |-> FALSE, displayed |-> "", diff |-> "", branch_name |-> "",
           branch_commits |-> "", api |-> "", api_text |-> ""]

\* parse_arguments of the generator
GenArgs ==
    {[dry_run |-> d, comments |-> c, branch_name |-> ""] :
        d \in BOOLEAN, c \in {"", "login fix"}}

\* parse_arguments of the branch tool: the branch named may or may not exist
BranchArgs == {[dry_run |-> FALSE, comments |-> "", branch_name |-> b] :
                  b \in {"feature-x", "gone"}}

Envs == {[git_on_path |-> g, api_key |-> k] :
            g \in BOOLEAN, k \in {None, Some(""), Some("sk-test")}}

Init ==
    /\ tool \in {"gen", "branch"}
    /\ pc = IF tool = "gen" THEN "is_repo" ELSE "preview"
    /\ args \in (IF tool = "gen" THEN GenArgs ELSE BranchArgs)
    /\ env \in (IF tool = "gen" THEN Envs
                ELSE {e \in Envs : e.api_key = None})
    /\ repo \in {[index |-> i, commits |-> <<>>, branches |-> {"main", "feature-x"},
                  dirty |-> FALSE] :
                    i \in (IF tool = "gen" THEN Indexes ELSE {<<>>})}
    /\ repo0 = repo
    /\ loc = NoLocals
    /\ out = NoOutput
    /\ calls = <<>>
    /\ requests = <<>>
    /\ prev = NoPrev

----------------------------------------------------------------------------
(* Helpers shared by the actions *)

\* one git subprocess, with how it ended
Git(cmd, arg, o) ==
    calls' = Append(calls, [cmd |-> cmd, arg |-> arg, launched |-> o.launched,
                            rc |-> o.rc])

\* console.print of some lines, the run goes on
Say(lines) == out' = [out EXCEPT !.console = @ \o lines]

\* sys.exit(code) after printing lines
Exit(code, lines) ==
    /\ pc' = "exited"
    /\ out' = [console |-> out.console \o lines, exited |-> TRUE, code |-> code,
               unhandled |-> ""]

\* an exception nobody catches: the interpreter prints a traceback, status 1
Crash(exc) ==
    /\ pc' = "exited"
    /\ out' = [console |-> out.console, exited |-> TRUE, code |-> 1,
               unhandled |-> exc]

----------------------------------------------------------------------------
(* git_commit_message_generator.py *)

\* stdout of "git diff --name-only --cached": one staged path per line
RECURSIVE StagedStdout(_)
StagedStdout(index) ==
    IF index = <<>> THEN ""
    ELSE Head(index) \o "\n" \o StagedStdout(Tail(index))

\* mutant: the empty strings are not filtered out
ParseStagedFiles_nofilter(stdout) == SplitLines(Strip(stdout))

\* get_staged_files: result.stdout.strip().split("\n"), empty strings filtered out
ParseStagedFiles(stdout) == NonEmpty(SplitLines(Strip(stdout)))

\* main: "if not staged_files"
NothingStaged(staged_files) == staged_files = <<>>

\* main: "if not diff.strip()"
NoChanges(diff) == Strip(diff) = ""

\* mutant: only an unset variable counts as missing, an empty one passes
MissingKey_unsetonly(api_key) == ~api_key.some

\* generate_commit_message: "if not api_key"
MissingKey(api_key) == Falsy(api_key)

\* generate_commit_message: the diff as embedded in the prompt
TruncateDiff(diff_text) ==
    IF Len(diff_text) > max_diff_length
    THEN SubSeq(diff_text, 1, max_diff_length) \o TruncationMarker
    ELSE diff_text

\* generate_commit_message: the history as embedded in the prompt
EmbedCommits(branch_commits) == branch_commits

\* generate_commit_message: branch_context
BranchContext(branch_name, branch_commits) ==
    "Current branch: " \o branch_name \o "\n"
    \o (IF branch_commits # ""
        THEN "Commit history on this branch:\n" \o EmbedCommits(branch_commits) \o "\n"
        ELSE "")

\* generate_commit_message: prompt
BuildPrompt(branch_context, diff_text, user_comments) ==
    "\n<context>\n" \o branch_context \o "\n</context>\n\n<diff>\n" \o diff_text
    \o "\n</diff>\n" \o Guidelines
    \o "<user_comments>\n" \o user_comments \o "\n</user_comments>\n"

\* generate_commit_message: what the call returns for an outcome of the request.
\* A content of None makes .strip() raise inside the try: caught, None returned.
CompletionResult(a) ==
    IF a.kind = "content" THEN Some(Strip(a.text)) ELSE None

\* mutant: the result is used as it came, without the fallback
FinalMessage_nofallback(commit_message) == commit_message.val

\* mutant: the fallback is applied on the way to the commit only
FinalMessage_commitonly(commit_message) ==
    IF Falsy(commit_message) /\ ~args.dry_run THEN DefaultMessage
    ELSE commit_message.val

\* main: the message shown and committed
FinalMessage(commit_message) ==
    IF Falsy(commit_message) THEN DefaultMessage ELSE commit_message.val

\* mutant: the status of git rev-parse is not looked at
InRepository_always(o) == TRUE

\* is_git_repository: check=True raised no CalledProcessError, True is returned
InRepository(o) == o.rc = 0

\* mutant: the result of commit_changes is inverted
CommitOk_inverted(o) == o.rc # 0

\* commit_changes: check=True raised no CalledProcessError, True is returned
CommitOk(o) == o.rc = 0

\* subprocess.run raises FileNotFoundError; no function of this script catches it
GitMissing == Crash("FileNotFoundError")

is_git_repository ==
    /\ tool = "gen" /\ pc = "is_repo"
    /\ \E o \in GitOutcomes :
        /\ Git("rev-parse --is-inside-work-tree", "", o)
        /\ IF ~o.launched THEN GitMissing
           ELSE IF ~InRepository(o)
           THEN Exit(1, <<"Error: Not in a git repository.">>)
           ELSE pc' = "staged" /\ UNCHANGED out
    /\ UNCHANGED <<tool, args, env, repo, repo0, loc, requests, prev>>

get_staged_files ==
    /\ tool = "gen" /\ pc = "staged"
    /\ \E o \in GitOutcomes :
        /\ Git("diff --name-only --cached", "", o)
        /\ IF ~o.launched THEN GitMissing /\ UNCHANGED loc
           ELSE IF o.rc # 0
           THEN Exit(1, <<"Error getting staged files:">>) /\ UNCHANGED loc
           ELSE LET files == ParseStagedFiles(StagedStdout(repo.index)) IN
                /\ loc' = [loc EXCEPT !.staged_files = files]
                /\ IF NothingStaged(files)
                   THEN Exit(0, <<"No staged changes to commit.", "Tip:">>)
                   ELSE pc' = "diff" /\ Say(<<"Found staged files.">>)
    /\ UNCHANGED <<tool, args, env, repo, repo0, requests, prev>>

get_git_diff ==
    /\ tool = "gen" /\ pc = "diff"
    /\ \E o \in GitOutcomes :
        /\ Git("diff --cached", "", o)
        /\ IF ~o.launched THEN GitMissing /\ UNCHANGED loc
           ELSE IF o.rc # 0
           THEN Exit(1, <<"Getting git diff", "Error getting git diff:">>)
                /\ UNCHANGED loc
           ELSE \E d \in DiffOutputs :
                /\ loc' = [loc EXCEPT !.diff = d]
                /\ IF NoChanges(d)
                   THEN Exit(0, <<"Getting git diff",
                                  "No changes detected in staged files.">>)
                   ELSE pc' = "branch" /\ Say(<<"Getting git diff">>)
    /\ UNCHANGED <<tool, args, env, repo, repo0, requests, prev>>

get_current_branch ==
    /\ tool = "gen" /\ pc = "branch"
    /\ \E o \in GitOutcomes :
        /\ Git("rev-parse --abbrev-ref HEAD", "", o)
        /\ IF ~o.launched THEN GitMissing /\ UNCHANGED loc
           ELSE IF o.rc # 0
           THEN /\ loc' = [loc EXCEPT !.branch_name = UnknownBranch]
                /\ Say(<<"Getting branch information", "Error getting current branch:",
                         "Current branch:">>)
                /\ pc' = "commits"
           ELSE \E b \in BranchOutputs :
                /\ loc' = [loc EXCEPT !.branch_name = Strip(b)]
                /\ Say(<<"Getting branch information", "Current branch:">>)
                /\ pc' = "commits"
    /\ UNCHANGED <<tool, args, env, repo, repo0, requests, prev>>

get_branch_commits ==
    /\ tool = "gen" /\ pc = "commits"
    /\ \E o1 \in GitOutcomes, o2 \in GitOutcomes :
        LET first == [cmd |-> "merge-base master HEAD", arg |-> "",
                      launched |-> o1.launched, rc |-> o1.rc]
            second == [cmd |-> "log --oneline", arg |-> "",
                       launched |-> o2.launched, rc |-> o2.rc]
        IN
        IF ~o1.launched
        THEN calls' = Append(calls, first) /\ GitMissing /\ UNCHANGED loc
        ELSE IF o1.rc # 0
        THEN /\ calls' = Append(calls, first)
             /\ loc' = [loc EXCEPT !.branch_commits = ""]
             /\ Say(<<"Warning: Could not get branch commits:">>)
             /\ pc' = "generate"
        ELSE IF o2.rc # 0
        THEN /\ calls' = calls \o <<first, second>>
             /\ loc' = [loc EXCEPT !.branch_commits = ""]
             /\ Say(<<"Warning: Could not get branch commits:">>)
             /\ pc' = "generate"
        ELSE \E l \in LogOutputs :
             /\ calls' = calls \o <<first, second>>
             /\ loc' = [loc EXCEPT !.branch_commits = Strip(l)]
             /\ IF Strip(l) # ""
                THEN Say(<<"Found commit history for this branch">>)
                ELSE UNCHANGED out
             /\ pc' = "generate"
    /\ UNCHANGED <<tool, args, env, repo, repo0, requests, prev>>

generate_commit_message ==
    /\ tool = "gen" /\ pc = "generate"
    /\ IF MissingKey(env.api_key)
       THEN /\ Exit(1, <<"Error: OPENAI_API_KEY environment variable not set.">>)
            /\ UNCHANGED <<loc, requests>>
       ELSE LET diff_text == TruncateDiff(loc.diff)
                branch_context == BranchContext(loc.branch_name, loc.branch_commits)
                prompt == BuildPrompt(branch_context, diff_text, args.comments)
            IN  \E a \in ApiOutcomes :
                /\ requests' = Append(requests, prompt)
                /\ loc' = [loc EXCEPT !.diff_text = diff_text,
                                      !.branch_context = branch_context,
                                      !.api = a.kind,
                                      !.api_text = a.text,
                                      !.commit_message = CompletionResult(a)]
                /\ IF a.kind = "content" THEN UNCHANGED out
                   ELSE Say(<<"Error generating commit message:">>)
                /\ pc' = "display"
    /\ UNCHANGED <<tool, args, env, repo, repo0, calls, prev>>

\* main, from the return of generate_commit_message to the dry-run test
show_message ==
    /\ tool = "gen" /\ pc = "display"
    /\ LET message == FinalMessage(loc.commit_message)
           failed == IF Falsy(loc.commit_message)
                     THEN <<"Failed to generate commit message. Using default message.">>
                     ELSE <<>>
       IN  /\ loc' = [loc EXCEPT !.commit_message = Some(message),
                                 !.displayed = Some(message)]
           /\ IF args.dry_run
              THEN Exit(0, failed \o <<"Generated Commit Message",
                                       "Dry run mode: Changes not committed.">>)
              ELSE /\ Say(failed \o <<"Generated Commit Message", "Committing changes">>)
                   /\ pc' = "commit"
    /\ UNCHANGED <<tool, args, env, repo, repo0, calls, requests, prev>>

\* "git commit -m message" that ended with status 0: the index becomes a commit
Committed(r, message) ==
    [r EXCEPT !.commits = Append(@, message), !.index = <<>>]

commit_changes ==
    /\ tool = "gen" /\ pc = "commit"
    /\ \E o \in GitOutcomes :
        /\ Git("commit -m", loc.commit_message.val, o)
        /\ repo' = IF o.launched /\ o.rc = 0
                   THEN Committed(repo, loc.commit_message.val)
                   ELSE repo
        /\ IF ~o.launched THEN GitMissing
           ELSE IF CommitOk(o)
           THEN Exit(0, <<"Successfully committed changes!">>)
           ELSE Exit(1, <<"Error committing changes:", "Failed to commit changes.">>)
    /\ UNCHANGED <<tool, args, env, repo0, loc, requests, prev>>

----------------------------------------------------------------------------
(* preview-branch-then-delete.py *)

\* preview_branch: expected_return_codes of the merge (0 success, 1 conflicts)
PreviewCodes == {0, 1}
\* run_git_command: the default expected_return_codes
DefaultCodes == {0}

\* mutant: the return code is not compared with the expected ones
RunOk_anycode(o, expected_return_codes) == o.launched

\* run_git_command returns (rather than calling sys.exit(1))
RunOk(o, expected_return_codes) == o.launched /\ o.rc \in expected_return_codes

\* run_git_command: what it prints before sys.exit(1)
RunErrors(o, error_message) ==
    IF ~o.launched
    THEN <<"Error: Git command not found. Is Git installed and in your PATH?">>
    ELSE <<error_message, "Command:", "Return Code:">>

\* main: the test confirm == "y" on the lowered answer
Confirmed(answer) == Lower(answer) = "y"

\* the exit status of the interpreter for an exception nobody catches
CrashCode(exc) == IF exc = "KeyboardInterrupt" THEN 130 ELSE 1

preview_branch ==
    /\ tool = "branch" /\ pc = "preview"
    /\ \E o \in GitOutcomes, conflicts \in BOOLEAN :
        /\ Git("merge --squash --no-commit --strategy-option theirs",
               args.branch_name, o)
        /\ IF RunOk(o, PreviewCodes)
           THEN /\ repo' = [repo EXCEPT !.dirty = TRUE]
                /\ Say(<<"Attempting to preview branch", "This will modify">>
                       \o (IF o.rc = 0 THEN <<"Preview successful.">>
                           ELSE IF conflicts
                           THEN <<"Preview generated merge conflicts.">>
                           ELSE <<>>))
                /\ pc' = "prompt"
                /\ UNCHANGED loc
           ELSE \* sys.exit(1) inside the try: SystemExit is pending in finally
                /\ conflicts = FALSE
                /\ UNCHANGED repo
                /\ Say(<<"Attempting to preview branch", "This will modify">>
                       \o RunErrors(o, "Failed to preview branch. Does it exist?"))
                /\ loc' = [loc EXCEPT !.pending = "SystemExit"]
                /\ pc' = "finally"
    /\ UNCHANGED <<tool, args, env, repo0, requests, prev>>

\* main: input(...).lower() and the test of the answer
confirm_prompt ==
    /\ tool = "branch" /\ pc = "prompt"
    /\ \E p \in PromptOutcomes :
        IF p.kind = "line"
        THEN /\ loc' = [loc EXCEPT !.confirm = Lower(p.text),
                                   !.delete_confirmed = Confirmed(p.text)]
             /\ IF Confirmed(p.text) THEN UNCHANGED out
                ELSE Say(<<"Branch deletion cancelled.">>)
        ELSE /\ loc' = [loc EXCEPT !.pending = p.kind]
             /\ UNCHANGED out
    /\ pc' = "finally"
    /\ UNCHANGED <<tool, args, env, repo, repo0, calls, requests, prev>>

\* main: the finally block, and what follows it
git_reset_hard ==
    /\ tool = "branch" /\ pc = "finally"
    /\ \E o \in GitOutcomes :
        /\ Git("reset --hard", "", o)
        /\ IF ~RunOk(o, DefaultCodes)
           THEN \* sys.exit(1) in the finally block replaces what was pending
                /\ Exit(1, <<"Resetting working directory to HEAD">>
                           \o RunErrors(o, "Failed to reset the working directory."))
                /\ UNCHANGED repo
           ELSE /\ repo' = [repo EXCEPT !.dirty = FALSE]
                /\ IF loc.pending = "SystemExit"
                   THEN Exit(1, <<"Resetting working directory to HEAD",
                                  "Working directory reset.">>)
                   ELSE IF loc.pending # ""
                   THEN /\ pc' = "exited"
                        /\ out' = [console |-> out.console
                                       \o <<"Resetting working directory to HEAD",
                                            "Working directory reset.">>,
                                   exited |-> TRUE, code |-> CrashCode(loc.pending),
                                   unhandled |-> loc.pending]
                   ELSE IF loc.delete_confirmed
                   THEN /\ pc' = "delete"
                        /\ Say(<<"Resetting working directory to HEAD",
                                 "Working directory reset.">>)
                   ELSE Exit(0, <<"Resetting working directory to HEAD",
                                  "Working directory reset.">>)
    /\ UNCHANGED <<tool, args, env, repo0, loc, requests, prev>>

delete_branch ==
    /\ tool = "branch" /\ pc = "delete"
    /\ \E o \in GitOutcomes :
        \* git deletes only a branch that exists
        /\ (o.launched /\ o.rc = 0) => args.branch_name \in repo.branches
        /\ Git("branch -D", args.branch_name, o)
        /\ IF RunOk(o, DefaultCodes)
           THEN /\ repo' = [repo EXCEPT !.branches = @ \ {args.branch_name}]
                /\ Exit(0, <<"Deleting branch", "Branch deleted successfully.">>)
           ELSE /\ UNCHANGED repo
                /\ Exit(1, <<"Deleting branch">>
                           \o RunErrors(o, "Failed to delete branch."))
    /\ UNCHANGED <<tool, args, env, repo0, loc, requests, prev>>

----------------------------------------------------------------------------
(* Specifications *)

Next ==
    \/ is_git_repository
    \/ get_staged_files
    \/ get_git_diff
    \/ get_current_branch
    \/ get_branch_commits
    \/ generate_commit_message
    \/ show_message
    \/ commit_changes
    \/ preview_branch
    \/ confirm_prompt
    \/ git_reset_hard
    \/ delete_branch

\* one run of one tool
Spec == Init /\ [][Next]_vars

\* The operator runs the generator again without --dry-run after a dry run
\* that showed a message; what the dry run read and showed is kept in prev.
Rerun ==
    /\ tool = "gen" /\ pc = "exited"
    /\ args.dry_run /\ loc.displayed.some /\ ~prev.some
    /\ prev' = [some |-> TRUE, displayed |-> loc.displayed.val, diff |-> loc.diff,
                branch_name |-> loc.branch_name,
                branch_commits |-> loc.branch_commits,
                api |-> loc.api, api_text |-> loc.api_text]
    /\ args' = [args EXCEPT !.dry_run = FALSE]
    /\ pc' = "is_repo"
    /\ repo0' = repo
    /\ loc' = NoLocals
    /\ out' = NoOutput
    /\ calls' = <<>>
    /\ requests' = <<>>
    /\ UNCHANGED <<tool, env, repo>>

NextRerun ==
    \/ Next
    \/ Rerun

\* a dry run of the generator followed by a run that commits
SpecRerun == Init /\ [][NextRerun]_vars

\* The generator at the call of generate_commit_message, after reads that all
\* succeeded, with a diff and a history as long as max_diff_length and longer.
ReadCalls ==
    [i \in 1..6 |->
        [cmd |-> <<"rev-parse --is-inside-work-tree", "diff --name-only --cached",
                   "diff --cached", "rev-parse --abbrev-ref HEAD",
                   "merge-base master HEAD", "log --oneline">>[i],
         arg |-> "", launched |-> TRUE, rc |-> 0]]

InitPrompt ==
    /\ tool = "gen"
    /\ pc = "generate"
    /\ args \in GenArgs
    /\ env \in {e \in Envs : e.git_on_path}
    /\ repo = [index |-> <<"a.py">>, commits |-> <<>>,
               branches |-> {"main", "feature-x"}, dirty |-> FALSE]
    /\ repo0 = repo
    /\ \E d \in LongTexts \cup {"diff --git a/a.py b/a.py\n+def f(): pass\n"},
          c \in LongTexts \cup {"", "abc1234 Add parser"} :
        /\ loc = [NoLocals EXCEPT !.staged_files = <<"a.py">>, !.diff = d,
                                  !.branch_name = "feature-x", !.branch_commits = c]
        /\ out = [NoOutput EXCEPT !.console =
                    <<"Found staged files.", "Getting git diff",
                      "Getting branch information", "Current branch:">>
                    \o (IF c # "" THEN <<"Found commit history for this branch">>
                        ELSE <<>>)]
    /\ calls = ReadCalls
    /\ requests = <<>>
    /\ prev = NoPrev

NextPrompt ==
    \/ generate_commit_message
    \/ show_message
    \/ commit_changes

\* the prompt assembler on long inputs
SpecPrompt == InitPrompt /\ [][NextPrompt]_vars

----------------------------------------------------------------------------
(* What a run has done so far *)

\* the positions in calls of the git commands named
CallsOf(cmds) == {i \in DOMAIN calls : calls[i].cmd \in cmds}
\* the git subprocess ran and returned status 0
RanOk(c) == c.launched /\ c.rc = 0

CommitIdx == CallsOf({"commit -m"})
DeleteIdx == CallsOf({"branch -D"})
MergeIdx == CallsOf({"merge --squash --no-commit --strategy-option theirs"})
ResetIdx == CallsOf({"reset --hard"})
\* the commands that record a commit, change the index or remove a reference
MutatingIdx == CallsOf({"commit -m", "add -A", "branch -D"})

Finished == pc = "exited" /\ out.exited
StagedListed == \E i \in CallsOf({"diff --name-only --cached"}) : RanOk(calls[i])
DiffRead == \E i \in CallsOf({"diff --cached"}) : RanOk(calls[i])
\* main reached the call of generate_commit_message
ReachedCompletion == \E i \in CallsOf({"merge-base master HEAD"}) : calls[i].launched
\* the credential variable is unset or empty
KeyAbsent == (~env.api_key.some) \/ env.api_key.val = ""
NoResult == loc.api \in {"error", "null_content"}
KeyErrorShown ==
    \E i \in DOMAIN out.console :
        out.console[i] = "Error: OPENAI_API_KEY environment variable not set."
GitNotFoundShown ==
    \E i \in DOMAIN out.console :
        out.console[i] = "Error: Git command not found. Is Git installed and in your PATH?"

----------------------------------------------------------------------------
(* Claims *)

\* C1: in every run of the generator in which the completion returns the
\* "insufficient context" sentinel, git commit is never invoked and the
\* process exits with a non-zero status.
C1_SentinelNeverCommitted ==
    (tool = "gen" /\ loc.api = "content" /\ Strip(loc.api_text) = InsufficientContext)
        => /\ CommitIdx = {}
           /\ Finished => out.code # 0

\* C2: in every run of the generator on a repository with no staged file, no
\* completion request and no commit or add is issued at any point, and once
\* the staged-file listing has succeeded the process has exited with status 0
\* leaving the repository as it was.
C2_NothingStagedExitsClean ==
    (tool = "gen" /\ repo0.index = <<>>)
        => /\ requests = <<>>
           /\ MutatingIdx = {}
           /\ repo = repo0
           /\ StagedListed => (Finished /\ out.code = 0 /\ out.unhandled = "")

C2_Witness ==
    /\ tool = "gen" /\ repo0.index = <<>> /\ StagedListed
    /\ Finished /\ out.code = 0 /\ requests = <<>> /\ calls # <<>>

\* C3 as stated: in every run of the generator in which the completion returns
\* no result, git commit is invoked with the fallback message and the process
\* exits with status 0.
C3_NoResultAlwaysCommits ==
    (tool = "gen" /\ Finished /\ NoResult)
        => /\ \E i \in CommitIdx : calls[i].arg = DefaultMessage
           /\ out.code = 0

\* C3 amended: in a run in which the completion returns no result, a run
\* without --dry-run invokes git commit once, with the fallback message, and
\* exits 0 exactly when that commit succeeds (1 when it fails); a --dry-run run
\* shows the fallback message, invokes no commit and exits 0.
C3_NoResultFallback ==
    (tool = "gen" /\ Finished /\ NoResult)
        => IF args.dry_run
           THEN /\ CommitIdx = {}
                /\ loc.displayed = Some(DefaultMessage)
                /\ out.code = 0
           ELSE /\ Cardinality(CommitIdx) = 1
                /\ \A i \in CommitIdx :
                    /\ calls[i].arg = DefaultMessage
                    /\ (out.code = 0) <=> RanOk(calls[i])
                    /\ (out.code = 1) <=> ~RanOk(calls[i])

C3_Witness ==
    /\ tool = "gen" /\ Finished /\ loc.api = "error" /\ ~args.dry_run
    /\ \E i \in CommitIdx : calls[i].arg = DefaultMessage /\ RanOk(calls[i])
    /\ out.code = 0
    /\ repo.commits = <<DefaultMessage>>

\* the second run read the same diff, branch name and history and received the
\* same completion outcome as the dry run before it (the user guidance is the
\* same by construction)
SameInputs ==
    /\ prev.some
    /\ loc.diff = prev.diff
    /\ loc.branch_name = prev.branch_name
    /\ loc.branch_commits = prev.branch_commits
    /\ loc.api = prev.api
    /\ loc.api_text = prev.api_text

\* C4: a --dry-run run never invokes git commit (or add) and leaves the
\* repository as it was; and the message it displayed is the message that a
\* run without --dry-run, on identical inputs, passes to git commit -m.
C4_DryRunShowsWhatIsCommitted ==
    /\ (tool = "gen" /\ args.dry_run) => (MutatingIdx = {} /\ repo = repo0)
    /\ (tool = "gen" /\ SameInputs)
        => \A i \in CommitIdx : calls[i].arg = prev.displayed

C4_Witness ==
    /\ tool = "gen" /\ SameInputs /\ prev.api = "error"
    /\ \E i \in CommitIdx : calls[i].arg = prev.displayed /\ RanOk(calls[i])
    /\ Finished

\* C5: in the branch tool, a run that attempted the preview does not end
\* before git reset --hard has been invoked after it, whatever the answer and
\* also when the preview or the prompt failed; git branch -D is invoked only
\* if the answer (lowered, as the tool reads it) is "y", and only after a
\* reset that returned status 0; a run without a confirmed answer removes no
\* branch reference.
C5_ResetAlwaysDeleteOnlyIfConfirmed ==
    tool = "branch"
        => /\ (Finished /\ MergeIdx # {})
                => \E r \in ResetIdx : \A m \in MergeIdx : m < r
           /\ \A d \in DeleteIdx :
                /\ loc.confirm = "y"
                /\ loc.pending = ""
                /\ \E r \in ResetIdx : r < d /\ RanOk(calls[r])
           /\ loc.confirm # "y" => (DeleteIdx = {} /\ repo.branches = repo0.branches)

C5_Witness ==
    /\ tool = "branch" /\ Finished /\ out.code = 0
    /\ loc.confirm = "y"
    /\ \E d \in DeleteIdx : RanOk(calls[d]) /\ \E r \in ResetIdx : r < d /\ RanOk(calls[r])
    /\ repo.branches = repo0.branches \ {args.branch_name}
    /\ repo.branches # repo0.branches

\* C6 as stated: in every run of the generator in which the credential is
\* absent or empty, the process reports a configuration error and exits
\* non-zero, with no completion request and no git commit.
C6_MissingKeyAlwaysConfigError ==
    (tool = "gen" /\ KeyAbsent /\ Finished)
        => /\ KeyErrorShown
           /\ out.code # 0
           /\ requests = <<>>
           /\ CommitIdx = {}

\* C6 amended: in every run of the generator in which the credential is absent
\* or empty, no completion request is issued and git commit is never invoked;
\* and a run that reaches the completion client (in a repository, with staged
\* files and a non-blank staged diff) reports the configuration error and
\* exits with status 1.
C6_MissingKeyFailsAtClient ==
    (tool = "gen" /\ KeyAbsent)
        => /\ requests = <<>>
           /\ CommitIdx = {}
           /\ repo = repo0
           /\ (Finished /\ ReachedCompletion)
                => (KeyErrorShown /\ out.code = 1 /\ out.unhandled = "")

C6_Witness ==
    /\ tool = "gen" /\ env.api_key = Some("") /\ Finished /\ ReachedCompletion
    /\ KeyErrorShown /\ out.code = 1 /\ requests = <<>>

\* the claim's cap: the first max_diff_length characters, then the marker
Capped(text) ==
    IF Len(text) > max_diff_length
    THEN SubSeq(text, 1, max_diff_length) \o TruncationMarker
    ELSE text

\* the history section of branch_context: what stands between the heading and
\* the closing line feed
HistorySection ==
    LET heading == "Current branch: " \o loc.branch_name
                   \o "\nCommit history on this branch:\n"
    IN  SubSeq(loc.branch_context, Len(heading) + 1, Len(loc.branch_context) - 1)

\* C7: the diff and the commit history are each embedded in the prompt cut to
\* their first max_diff_length characters followed by the truncation marker when
\* longer (so never longer than max_diff_length + Len(marker)), and unchanged
\* otherwise.
C7_BothSectionsCapped ==
    (tool = "gen" /\ requests # <<>>)
        => /\ loc.diff_text = Capped(loc.diff)
           /\ Len(loc.diff_text) <= max_diff_length + Len(TruncationMarker)
           /\ loc.branch_commits # ""
                => /\ HistorySection = Capped(loc.branch_commits)
                   /\ Len(HistorySection) <= max_diff_length + Len(TruncationMarker)

\* C7, the half that holds: the diff is embedded capped.
C7_DiffCapped ==
    (tool = "gen" /\ requests # <<>>)
        => /\ loc.diff_text = Capped(loc.diff)
           /\ Len(loc.diff_text) <= max_diff_length + Len(TruncationMarker)
           /\ \E i \in DOMAIN requests :
                requests[i] = BuildPrompt(loc.branch_context, Capped(loc.diff),
                                          args.comments)

\* C8: when git cannot be launched, each tool prints a diagnostic of its own,
\* exits non-zero with no exception left unhandled, and issues no completion
\* request and no mutating git command.
C8_GitMissingHandled ==
    (~env.git_on_path /\ Finished)
        => /\ out.unhandled = ""
           /\ GitNotFoundShown
           /\ out.code # 0
           /\ requests = <<>>
           /\ MutatingIdx = {}

\* a step after the diff read failed: a git read or the commit returned a
\* non-zero status, the credential is missing, or the completion gave no result
FailedAfterDiff ==
    \/ \E i \in CallsOf({"rev-parse --abbrev-ref HEAD", "merge-base master HEAD",
                         "log --oneline", "commit -m"}) : ~RanOk(calls[i])
    \/ ReachedCompletion /\ KeyAbsent
    \/ NoResult

\* C9 as stated: in every run of the generator in which a step fails after the
\* staged diff was read, the repository at exit is as it was at the start: no
\* commit, the same index.
C9_FailureAfterDiffLeavesRepo ==
    (tool = "gen" /\ Finished /\ DiffRead /\ FailedAfterDiff) => repo = repo0

\* C9 amended: a run in which a step fails after the staged diff was read
\* leaves the repository as it was whenever it exits non-zero (missing
\* credential, failed git commit) or runs with --dry-run; a failed completion
\* request or branch/history read does not stop the run, which then commits
\* (with the fallback message after a failed completion).
C9_FailedRunLeavesRepo ==
    (tool = "gen" /\ Finished /\ DiffRead /\ FailedAfterDiff)
        => /\ (out.code # 0 \/ args.dry_run) => repo = repo0
           /\ repo # repo0
                => /\ repo.index = <<>>
                   /\ \E i \in CommitIdx :
                        /\ RanOk(calls[i])
                        /\ repo.commits = Append(repo0.commits, calls[i].arg)
                        /\ NoResult => calls[i].arg = DefaultMessage

C9_Witness ==
    /\ tool = "gen" /\ Finished /\ DiffRead /\ loc.api = "content"
    /\ \E i \in CommitIdx : ~RanOk(calls[i])
    /\ out.code = 1
    /\ repo = repo0 /\ repo.index # <<>>

\* the outcome the tool accepts for a git command
Succeeded(c) ==
    /\ c.launched
    /\ IF c.cmd = "merge --squash --no-commit --strategy-option theirs"
       THEN c.rc \in {0, 1}
       ELSE c.rc = 0

Required(c) ==
    c.cmd \notin {"rev-parse --abbrev-ref HEAD", "merge-base master HEAD",
                  "log --oneline"}

=============================================================================
